---- MODULE Spec2Model ----
(***************************************************************************)
(* A model of hopmap (github.com/ostafen/hopmap): a fixed-capacity         *)
(* hopscotch hash map.  The table is two parallel arrays: entries (the     *)
(* slots) and neighbors (one 32-bit bitmap per home).                      *)
(*                                                                         *)
(* A uint32 bitmap is represented by the set of its set bit positions,     *)
(* counted from the most significant bit: position b stands for the bit    *)
(* value 1 << (31 - b).  Hence bits.LeadingZeros32 is the minimum of the   *)
(* set (32 for the empty set), x << s subtracts s from every position and  *)
(* drops those that fall off the left end, | is union and ^ is symmetric   *)
(* difference.                                                             *)
(***************************************************************************)
EXTENDS Integers, FiniteSets

\* ------------------------------------------------------------------ bounds
\* Config.Size of the table under test.
Capacity == 4
\* Config.BucketSize of the table under test (1 <= BucketSize <= 32).
BucketSize == 2
\* Keys are 0..MaxKey (Key is a uint32 whose HashCode is itself).
MaxKey == 5

\* -------------------------------------------------------- program constants
\* Width of one neighborhood bitmap (neighbors []uint32).
BitmapWidth == 32

\* zeroValue[V]() for V = uint32
zeroValue == 0

Keys == 0..MaxKey

\* The values stored.  The map never inspects a value, so the zero value and
\* one other value stand for all of them.
Values == {zeroValue, zeroValue + 1}

\* const allBitSet = 0xFFFFFFFF
allBitSet == 0..(BitmapWidth - 1)

\* A nil *entry.
Nil == <<>>

\* &entry[K, V]{key, value}
entry(key, value) == [key |-> key, value |-> value]

\* Marker for a run-time panic (nil dereference) inside findEntry.
Panic == -2

VARIABLES
    config,     \* Map.config: [Size, BucketSize, AutoResize]
    entries,    \* Map.entries: slot index -> Nil or an entry
    neighbors,  \* Map.neighbors: home index -> bitmap
    n,          \* Map.n
    keys,       \* the caller's record of what it stored: key -> <<>> or <<value>>
    filling     \* TRUE while every call so far was a Put of a new key that
                \* returned true (the insertion loop of TestPutAndGet)

vars == <<config, entries, neighbors, n, keys, filling>>

\* ------------------------------------------------------------ bit helpers
Min(S) == CHOOSE x \in S : \A y \in S : x <= y

\* bits.LeadingZeros32(x)
LeadingZeros32(x) == IF x = {} THEN BitmapWidth ELSE Min(x)

\* x << s on a uint32
Shl(x, s) == {b - s : b \in {c \in x : c >= s}}

\* uint32(1 << (31 - d)) for an offset d in 0..31.  Every offset the callers
\* pass is a distance below BucketSize, so it is in range for the tables
\* modelled here (BucketSize <= 32).
Bit(d) == IF d \in 0..(BitmapWidth - 1) THEN {d} ELSE {}

\* a ^ b on bitmaps
Xor(a, b) == (a \ b) \cup (b \ a)

\* Go's n % m, which truncates toward zero.
GoRem(a, b) == IF a >= 0 THEN a % b ELSE -((-a) % b)

\* func mod(n, m int) int
mod(a, b) ==
    LET res == GoRem(a, b)
    IN  IF res < 0 THEN res + b ELSE res

\* ---------------------------------------------------------- the Map value
\* The receiver *Map as a record of the current state.
M == [config |-> config, entries |-> entries, neighbors |-> neighbors, n |-> n]

\* Key.HashCode()
HashCode(key) == key

\* Key.Equals
Equals(x, y) == x = y

\* func (m *Map) hashKey(key K) uint32
hashKey(m, key) == HashCode(key) % m.config.Size

\* func (m *Map) nextHash(hash uint32) uint32
nextHash(m, hash) == mod(hash + 1, m.config.Size)

\* func New(c Config) *Map
New(c) ==
    [config    |-> c,
     entries   |-> [i \in 0..(c.Size - 1) |-> Nil],
     neighbors |-> [i \in 0..(c.Size - 1) |-> {}],
     n         |-> 0]

\* ----------------------------------------------------------------- lookup
\* The loop of findEntry: nb is the shifted bitmap, zeros its leading-zero
\* count and i the slot the next comparison reads.  e.key on a nil entry
\* is a nil dereference.
RECURSIVE findEntryLoop(_, _, _, _, _)
findEntryLoop(m, key, nb, zeros, i) ==
    IF nb = {} THEN -1
    ELSE IF m.entries[i] = Nil THEN Panic
    ELSE IF Equals(m.entries[i].key, key) THEN i
    ELSE LET nb2 == Shl(nb, zeros + 1)
             zeros2 == LeadingZeros32(nb2)
         IN  findEntryLoop(m, key, nb2, zeros2, mod(i + zeros2 + 1, m.config.Size))

\* func (m *Map) findEntry(hash uint32, key K) int
findEntry(m, hash, key) ==
    LET nb == m.neighbors[hash]
        zeros == LeadingZeros32(nb)
    IN  findEntryLoop(m, key, nb, zeros, mod(hash + zeros, m.config.Size))

RECURSIVE findEntryScanLoop(_, _, _, _, _, _)

\* Mutant of findEntryScanLoop: the loop has no early return, it remembers
\* the match and goes on to the end of the bitmap.
findEntryScanLoop_noReturn(m, key, nb, zeros, i, sc) ==
    IF nb = {} THEN sc
    ELSE IF m.entries[i] = Nil
    THEN [count |-> sc.count, slots |-> sc.slots \cup {i}]
    ELSE LET nb2 == Shl(nb, zeros + 1)
             zeros2 == LeadingZeros32(nb2)
         IN  findEntryScanLoop(m, key, nb2, zeros2,
                               mod(i + zeros2 + 1, m.config.Size),
                               [count |-> sc.count + 1, slots |-> sc.slots \cup {i}])

\* The work of the loop of findEntry: the slots i whose entry it reads
\* (e := m.entries[i]) and the number of calls of Equals it makes; a nil
\* entry is read, and ends the scan, before Equals is called.
findEntryScanLoop(m, key, nb, zeros, i, sc) ==
    IF nb = {} THEN sc
    ELSE IF m.entries[i] = Nil
    THEN [count |-> sc.count, slots |-> sc.slots \cup {i}]
    ELSE IF Equals(m.entries[i].key, key)
    THEN [count |-> sc.count + 1, slots |-> sc.slots \cup {i}]
    ELSE LET nb2 == Shl(nb, zeros + 1)
             zeros2 == LeadingZeros32(nb2)
         IN  findEntryScanLoop(m, key, nb2, zeros2,
                               mod(i + zeros2 + 1, m.config.Size),
                               [count |-> sc.count + 1, slots |-> sc.slots \cup {i}])

\* The work of m.findEntry(hash, key).
findEntryScan(m, hash, key) ==
    LET nb == m.neighbors[hash]
        zeros == LeadingZeros32(nb)
    IN  findEntryScanLoop(m, key, nb, zeros, mod(hash + zeros, m.config.Size),
                          [count |-> 0, slots |-> {}])

\* func (m *Map) Get(key K) (V, bool)
Get(m, key) ==
    LET hash == hashKey(m, key)
        e == findEntry(m, hash, key)
    IN  IF e = Panic THEN [value |-> zeroValue, ok |-> FALSE, exit |-> "panic"]
        ELSE IF e >= 0 THEN [value |-> m.entries[e].value, ok |-> TRUE, exit |-> "hit"]
        ELSE [value |-> zeroValue, ok |-> FALSE, exit |-> "miss"]

\* func (m *Map) Len() int
Len(m) == m.n

\* func (m *Map) Size() int
Size(m) == m.config.Size

\* ------------------------------------------------------- bitmap updates
\* Mutant of clearNeighbor: the XOR mask is 0, no bit changes.
clearNeighbor_noop(m, e, nb) ==
    [m EXCEPT !.neighbors[e] = Xor(@, {})]

\* func (m *Map) clearNeighbor(entry int, neighbor int)
clearNeighbor(m, e, nb) ==
    [m EXCEPT !.neighbors[e] = Xor(@, Bit(nb))]

\* Mutant of setNeighbor: counts the bit from the least significant end,
\* 1 << neighbor.
setNeighbor_lowBit(m, e, nb) ==
    [m EXCEPT !.neighbors[e] = @ \cup Bit((BitmapWidth - 1) - nb)]

\* func (m *Map) setNeighbor(entry int, neighbor int)
setNeighbor(m, e, nb) ==
    [m EXCEPT !.neighbors[e] = @ \cup Bit(nb)]

\* ------------------------------------------------------------ insertion
\* The loop of findEmptySlot, from the first nextHash on.
RECURSIVE findEmptySlotLoop(_, _, _)
findEmptySlotLoop(m, startHash, hash) ==
    IF hash # startHash /\ m.entries[hash] # Nil
    THEN findEmptySlotLoop(m, startHash, nextHash(m, hash))
    ELSE IF hash # startHash THEN hash ELSE -1

\* Mutant of findEmptySlot: without the test of the start slot itself.
findEmptySlot_skipsStart(m, startHash) ==
    findEmptySlotLoop(m, startHash, nextHash(m, startHash))

\* func (m *Map) findEmptySlot(startHash uint32) int
findEmptySlot(m, startHash) ==
    IF m.entries[startHash] = Nil THEN startHash
    ELSE findEmptySlotLoop(m, startHash, nextHash(m, startHash))

\* The loop of findNearestItem; the result is the map (whose bitmap the
\* search itself updates) and the slot found, or -1.
RECURSIVE findNearestItemLoop(_, _, _, _)

\* Mutant of findNearestItemLoop: the window ends one home early, the loop
\* running while maxDist < BucketSize - 1.
findNearestItemLoop_shortWindow(m, j, k, maxDist) ==
    IF maxDist < m.config.BucketSize - 1
    THEN LET dist == LeadingZeros32(m.neighbors[k])
         IN  IF dist <= maxDist
             THEN [m |-> setNeighbor(clearNeighbor(m, k, dist), k, maxDist),
                   k |-> mod(k + dist, m.config.Size)]
             ELSE LET k2 == mod(k - 1, m.config.Size)
                  IN  findNearestItemLoop(m, j, k2, mod(j - k2, m.config.Size))
    ELSE [m |-> m, k |-> -1]

\* The loop of findNearestItem, from home k at distance maxDist before j.
findNearestItemLoop(m, j, k, maxDist) ==
    IF maxDist < m.config.BucketSize
    THEN LET dist == LeadingZeros32(m.neighbors[k])
         IN  IF dist <= maxDist
             THEN [m |-> setNeighbor(clearNeighbor(m, k, dist), k, maxDist),
                   k |-> mod(k + dist, m.config.Size)]
             ELSE LET k2 == mod(k - 1, m.config.Size)
                  IN  findNearestItemLoop(m, j, k2, mod(j - k2, m.config.Size))
    ELSE [m |-> m, k |-> -1]

\* func (m *Map) findNearestItem(j int) int
findNearestItem(m, j) ==
    LET k == mod(j - 1, m.config.Size)
    IN  findNearestItemLoop(m, j, k, mod(j - k, m.config.Size))

\* Mutant of reshift: the two assignments in the other order, so the
\* entry is cleared before it is copied.
reshift_clearsFirst(m, j) ==
    LET f == findNearestItem(m, j)
    IN  IF f.k >= 0
        THEN [m |-> [f.m EXCEPT !.entries[f.k] = Nil, !.entries[j] = Nil],
              k |-> f.k]
        ELSE f

\* Mutant of reshift: m.entries[k] = nil is left out, so the moved entry
\* stays in its old slot as well.
reshift_keepsOld(m, j) ==
    LET f == findNearestItem(m, j)
    IN  IF f.k >= 0
        THEN [m |-> [f.m EXCEPT !.entries[j] = f.m.entries[f.k]],
              k |-> f.k]
        ELSE f

\* func (m *Map) reshift(j int) int
reshift(m, j) ==
    LET f == findNearestItem(m, j)
    IN  IF f.k >= 0
        THEN [m |-> [f.m EXCEPT !.entries[j] = f.m.entries[f.k],
                                !.entries[f.k] = Nil],
              k |-> f.k]
        ELSE f

RECURSIVE shiftLoop(_, _, _, _, _)

\* Mutant of shiftLoop: the loop runs while dist > BucketSize.
shiftLoop_offByOne(m, i, j, dist, moves) ==
    IF dist > m.config.BucketSize
    THEN LET r == reshift(m, j)
         IN  IF r.k < 0
             THEN [m |-> r.m, j |-> r.k, dist |-> dist, moves |-> moves]
             ELSE shiftLoop(r.m, i, r.k, mod(r.k - i, m.config.Size), moves + 1)
    ELSE [m |-> m, j |-> j, dist |-> dist, moves |-> moves]

\* The loop of shiftEmptySlotTo; moves counts the iterations that
\* relocated an entry.
shiftLoop(m, i, j, dist, moves) ==
    IF dist >= m.config.BucketSize
    THEN LET r == reshift(m, j)
         IN  IF r.k < 0
             THEN [m |-> r.m, j |-> r.k, dist |-> dist, moves |-> moves]
             ELSE shiftLoop(r.m, i, r.k, mod(r.k - i, m.config.Size), moves + 1)
    ELSE [m |-> m, j |-> j, dist |-> dist, moves |-> moves]

\* func (m *Map) shiftEmptySlotTo(i, j int) (int, int)
shiftEmptySlotTo(m, i, j) ==
    shiftLoop(m, i, j, mod(j - i, m.config.Size), 0)

\* Mutant of PutAbsent: the bit is set in the bitmap of the slot that takes
\* the entry instead of the bitmap of the key's home.
PutAbsent_bitAtSlot(m, hash, key, value) ==
    LET emptySlot == findEmptySlot(m, hash)
    IN  IF emptySlot < 0
        THEN [m |-> m, ok |-> FALSE, exit |-> "noslot", moves |-> 0]
        ELSE IF m.neighbors[emptySlot] = allBitSet
        THEN [m |-> m, ok |-> FALSE, exit |-> "saturated", moves |-> 0]
        ELSE LET s == shiftEmptySlotTo(m, hash, emptySlot)
             IN  IF s.j < 0
                 THEN [m |-> s.m, ok |-> FALSE, exit |-> "deadlock", moves |-> s.moves]
                 ELSE [m |-> [s.m EXCEPT !.entries[s.j] = entry(key, value),
                                         !.neighbors[s.j] = @ \cup Bit(s.dist),
                                         !.n = @ + 1],
                       ok |-> TRUE, exit |-> "stored", moves |-> s.moves]

\* Mutant of PutAbsent: the TODO carried out, the table grows by one slot
\* and takes the entry there when AutoResize is set and no slot is empty.
PutAbsent_grows(m, hash, key, value) ==
    LET emptySlot == findEmptySlot(m, hash)
    IN  IF emptySlot < 0 /\ m.config.AutoResize
        THEN [m |-> [config    |-> [m.config EXCEPT !.Size = @ + 1],
                     entries   |-> [i \in 0..m.config.Size |->
                                       IF i < m.config.Size THEN m.entries[i]
                                       ELSE entry(key, value)],
                     neighbors |-> [i \in 0..m.config.Size |->
                                       IF i < m.config.Size THEN m.neighbors[i]
                                       ELSE {}],
                     n         |-> m.n + 1],
              ok |-> TRUE, exit |-> "stored", moves |-> 0]
        ELSE IF emptySlot < 0
        THEN [m |-> m, ok |-> FALSE, exit |-> "noslot", moves |-> 0]
        ELSE IF m.neighbors[emptySlot] = allBitSet
        THEN [m |-> m, ok |-> FALSE, exit |-> "saturated", moves |-> 0]
        ELSE LET s == shiftEmptySlotTo(m, hash, emptySlot)
             IN  IF s.j < 0
                 THEN [m |-> s.m, ok |-> FALSE, exit |-> "deadlock", moves |-> s.moves]
                 ELSE [m |-> [s.m EXCEPT !.entries[s.j] = entry(key, value),
                                         !.neighbors[hash] = @ \cup Bit(s.dist),
                                         !.n = @ + 1],
                       ok |-> TRUE, exit |-> "stored", moves |-> s.moves]

\* Mutant of PutAbsent: m.n++ is done before the displacement, so a Put
\* that fails by deadlock has counted its entry.
PutAbsent_countsEarly(m, hash, key, value) ==
    LET emptySlot == findEmptySlot(m, hash)
    IN  IF emptySlot < 0
        THEN [m |-> m, ok |-> FALSE, exit |-> "noslot", moves |-> 0]
        ELSE IF m.neighbors[emptySlot] = allBitSet
        THEN [m |-> m, ok |-> FALSE, exit |-> "saturated", moves |-> 0]
        ELSE LET s == shiftEmptySlotTo(m, hash, emptySlot)
             IN  IF s.j < 0
                 THEN [m |-> [s.m EXCEPT !.n = @ + 1],
                       ok |-> FALSE, exit |-> "deadlock", moves |-> s.moves]
                 ELSE [m |-> [s.m EXCEPT !.entries[s.j] = entry(key, value),
                                         !.neighbors[hash] = @ \cup Bit(s.dist),
                                         !.n = @ + 1],
                       ok |-> TRUE, exit |-> "stored", moves |-> s.moves]

\* Mutant of PutAbsent: without m.n++.
PutAbsent_forgetsCount(m, hash, key, value) ==
    LET emptySlot == findEmptySlot(m, hash)
    IN  IF emptySlot < 0
        THEN [m |-> m, ok |-> FALSE, exit |-> "noslot", moves |-> 0]
        ELSE IF m.neighbors[emptySlot] = allBitSet
        THEN [m |-> m, ok |-> FALSE, exit |-> "saturated", moves |-> 0]
        ELSE LET s == shiftEmptySlotTo(m, hash, emptySlot)
             IN  IF s.j < 0
                 THEN [m |-> s.m, ok |-> FALSE, exit |-> "deadlock", moves |-> s.moves]
                 ELSE [m |-> [s.m EXCEPT !.entries[s.j] = entry(key, value),
                                         !.neighbors[hash] = @ \cup Bit(s.dist)],
                       ok |-> TRUE, exit |-> "stored", moves |-> s.moves]

\* The part of Put after the key was found absent.
PutAbsent(m, hash, key, value) ==
    LET emptySlot == findEmptySlot(m, hash)
    IN  IF emptySlot < 0
        THEN [m |-> m, ok |-> FALSE, exit |-> "noslot", moves |-> 0]
        ELSE IF m.neighbors[emptySlot] = allBitSet
        THEN [m |-> m, ok |-> FALSE, exit |-> "saturated", moves |-> 0]
        ELSE LET s == shiftEmptySlotTo(m, hash, emptySlot)
             IN  IF s.j < 0
                 THEN [m |-> s.m, ok |-> FALSE, exit |-> "deadlock", moves |-> s.moves]
                 ELSE [m |-> [s.m EXCEPT !.entries[s.j] = entry(key, value),
                                         !.neighbors[hash] = @ \cup Bit(s.dist),
                                         !.n = @ + 1],
                       ok |-> TRUE, exit |-> "stored", moves |-> s.moves]

\* Mutant of Put: m.n++ also when the key was present.
Put_overwriteCounts(m, key, value) ==
    LET hash == hashKey(m, key)
        e == findEntry(m, hash, key)
    IN  IF e = Panic
        THEN [m |-> m, ok |-> FALSE, exit |-> "panic", moves |-> 0]
        ELSE IF e >= 0
        THEN [m |-> [m EXCEPT !.entries[e].value = value, !.n = @ + 1],
              ok |-> TRUE, exit |-> "overwrite", moves |-> 0]
        ELSE PutAbsent(m, hash, key, value)

\* Mutant of Put: the lookup is left out, every key is stored as a new one.
Put_noLookup(m, key, value) ==
    PutAbsent(m, hashKey(m, key), key, value)

\* func (m *Map) Put(key K, value V) bool
Put(m, key, value) ==
    LET hash == hashKey(m, key)
        e == findEntry(m, hash, key)
    IN  IF e = Panic
        THEN [m |-> m, ok |-> FALSE, exit |-> "panic", moves |-> 0]
        ELSE IF e >= 0
        THEN [m |-> [m EXCEPT !.entries[e].value = value],
              ok |-> TRUE, exit |-> "overwrite", moves |-> 0]
        ELSE PutAbsent(m, hash, key, value)

\* ------------------------------------------------------------- deletion
\* Mutant of Delete: without the clearNeighbor call.
Delete_keepsBit(m, key) ==
    LET hash == hashKey(m, key)
        e == findEntry(m, hash, key)
    IN  IF e = Panic
        THEN [m |-> m, value |-> zeroValue, ok |-> FALSE, exit |-> "panic"]
        ELSE IF e >= 0
        THEN [m |-> [m EXCEPT !.entries[e] = Nil, !.n = @ - 1],
              value |-> m.entries[e].value, ok |-> TRUE, exit |-> "hit"]
        ELSE [m |-> m, value |-> zeroValue, ok |-> FALSE, exit |-> "miss"]

\* Mutant of Delete: the value is read after resetEntry has zeroed it.
Delete_valueAfterReset(m, key) ==
    LET hash == hashKey(m, key)
        e == findEntry(m, hash, key)
    IN  IF e = Panic
        THEN [m |-> m, value |-> zeroValue, ok |-> FALSE, exit |-> "panic"]
        ELSE IF e >= 0
        THEN [m |-> [clearNeighbor(m, hash, mod(e - hash, m.config.Size))
                        EXCEPT !.entries[e] = Nil, !.n = @ - 1],
              value |-> zeroValue, ok |-> TRUE, exit |-> "hit"]
        ELSE [m |-> m, value |-> zeroValue, ok |-> FALSE, exit |-> "miss"]

\* Mutant of Delete: m.n-- also when the key was not found.
Delete_alwaysCounts(m, key) ==
    LET hash == hashKey(m, key)
        e == findEntry(m, hash, key)
    IN  IF e = Panic
        THEN [m |-> m, value |-> zeroValue, ok |-> FALSE, exit |-> "panic"]
        ELSE IF e >= 0
        THEN [m |-> [clearNeighbor(m, hash, mod(e - hash, m.config.Size))
                        EXCEPT !.entries[e] = Nil, !.n = @ - 1],
              value |-> m.entries[e].value, ok |-> TRUE, exit |-> "hit"]
        ELSE [m |-> [m EXCEPT !.n = @ - 1],
              value |-> zeroValue, ok |-> FALSE, exit |-> "miss"]

\* Mutant of Delete: clearNeighbor is given the slot index e instead of the
\* offset of e from the home.
Delete_absoluteOffset(m, key) ==
    LET hash == hashKey(m, key)
        e == findEntry(m, hash, key)
    IN  IF e = Panic
        THEN [m |-> m, value |-> zeroValue, ok |-> FALSE, exit |-> "panic"]
        ELSE IF e >= 0
        THEN [m |-> [clearNeighbor(m, hash, e)
                        EXCEPT !.entries[e] = Nil, !.n = @ - 1],
              value |-> m.entries[e].value, ok |-> TRUE, exit |-> "hit"]
        ELSE [m |-> m, value |-> zeroValue, ok |-> FALSE, exit |-> "miss"]

\* Mutant of Delete: the whole bitmap of the home is zeroed instead of the
\* one bit being cleared.
Delete_clearsBitmap(m, key) ==
    LET hash == hashKey(m, key)
        e == findEntry(m, hash, key)
    IN  IF e = Panic
        THEN [m |-> m, value |-> zeroValue, ok |-> FALSE, exit |-> "panic"]
        ELSE IF e >= 0
        THEN [m |-> [m EXCEPT !.neighbors[hash] = {},
                              !.entries[e] = Nil, !.n = @ - 1],
              value |-> m.entries[e].value, ok |-> TRUE, exit |-> "hit"]
        ELSE [m |-> m, value |-> zeroValue, ok |-> FALSE, exit |-> "miss"]

\* func (m *Map) Delete(key K) (V, bool)
Delete(m, key) ==
    LET hash == hashKey(m, key)
        e == findEntry(m, hash, key)
    IN  IF e = Panic
        THEN [m |-> m, value |-> zeroValue, ok |-> FALSE, exit |-> "panic"]
        ELSE IF e >= 0
        THEN [m |-> [clearNeighbor(m, hash, mod(e - hash, m.config.Size))
                        EXCEPT !.entries[e] = Nil, !.n = @ - 1],
              value |-> m.entries[e].value, ok |-> TRUE, exit |-> "hit"]
        ELSE [m |-> m, value |-> zeroValue, ok |-> FALSE, exit |-> "miss"]

\* ------------------------------------------------------------ the system
\* The Config the table is constructed with.
TestConfig == [Size |-> Capacity, BucketSize |-> BucketSize, AutoResize |-> FALSE]

Init ==
    /\ config = TestConfig
    /\ entries = New(config).entries
    /\ neighbors = New(config).neighbors
    /\ n = New(config).n
    /\ keys = [k \in Keys |-> <<>>]
    /\ filling = TRUE

\* A call m.Get(key): it changes nothing in the map; a nil dereference
\* would end the program.
GetAct(key) ==
    \E r \in {Get(M, key)} :
        /\ r.exit # "panic"
        /\ filling' = FALSE
        /\ UNCHANGED <<config, entries, neighbors, n, keys>>

\* A call m.Put(key, value); the caller records the pair when it returns true.
PutAct(key, value) ==
    \E r \in {Put(M, key, value)} :
        /\ r.exit # "panic"
        /\ entries' = r.m.entries
        /\ neighbors' = r.m.neighbors
        /\ n' = r.m.n
        /\ keys' = IF r.ok THEN [keys EXCEPT ![key] = <<value>>] ELSE keys
        /\ filling' = (filling /\ r.exit = "stored")
        /\ UNCHANGED config

\* A call m.Delete(key); the caller forgets the key when it returns true.
DeleteAct(key) ==
    \E r \in {Delete(M, key)} :
        /\ r.exit # "panic"
        /\ entries' = r.m.entries
        /\ neighbors' = r.m.neighbors
        /\ n' = r.m.n
        /\ keys' = IF r.ok THEN [keys EXCEPT ![key] = <<>>] ELSE keys
        /\ filling' = FALSE
        /\ UNCHANGED config

Next ==
    \/ \E key \in Keys : GetAct(key)
    \/ \E key \in Keys, value \in Values : PutAct(key, value)
    \/ \E key \in Keys : DeleteAct(key)

Spec == Init /\ [][Next]_vars

\* The same client on a table constructed with either value of
\* Config.AutoResize (DefaultConfig sets it, the test clears it).
InitAutoResize ==
    /\ config \in {[TestConfig EXCEPT !.AutoResize = a] : a \in BOOLEAN}
    /\ entries = New(config).entries
    /\ neighbors = New(config).neighbors
    /\ n = New(config).n
    /\ keys = [k \in Keys |-> <<>>]
    /\ filling = TRUE

SpecAutoResize == InitAutoResize /\ [][Next]_vars

\* The same client on a table constructed with the test's BucketSize or with
\* one above the width of a bitmap: New takes whatever Config it is given.
InitAnyBucketSize ==
    /\ config \in {[TestConfig EXCEPT !.BucketSize = b] :
                       b \in {BucketSize, BitmapWidth + 1}}
    /\ entries = New(config).entries
    /\ neighbors = New(config).neighbors
    /\ n = New(config).n
    /\ keys = [k \in Keys |-> <<>>]
    /\ filling = TRUE

SpecAnyBucketSize == InitAnyBucketSize /\ [][Next]_vars

\* ================================================================ claims
\* The slot indices of map m.
Slots(m) == 0..(m.config.Size - 1)

\* The home of the entry stored in occupied slot i of m.
HomeOfSlot(m, i) == hashKey(m, m.entries[i].key)

\* Forward (wrapping) distance from slot a to slot b of m.
Distance(m, a, b) == mod(b - a, m.config.Size)

\* The occupied slots of m.
Occupied(m) == {i \in Slots(m) : m.entries[i] # Nil}

\* The occupied slots of m whose entry has home h.
SlotsOfHome(m, h) == {i \in Occupied(m) : HomeOfSlot(m, i) = h}

\* What Get returns for a key that is not stored.
Miss == [value |-> zeroValue, ok |-> FALSE, exit |-> "miss"]

\* What Get returns for a key stored with value v.
Hit(v) == [value |-> v, ok |-> TRUE, exit |-> "hit"]

\* ---- C1 ----------------------------------------------------------------
\* C1 (round trip): after any sequence of Put and Delete calls, every key
\* whose most recent successful Put(k, v) was not followed by a successful
\* Delete(k) is found by Get(k), with value v.
C1_RoundTrip ==
    \A k \in Keys : keys[k] # <<>> => Get(M, k) = Hit(keys[k][1])

\* Two or more keys are stored, one of them was stored by a Put that
\* returned true while an earlier Put had failed, and the next Put stores a
\* new key after relocating other entries.
C1_Witness ==
    /\ Cardinality({k \in Keys : keys[k] # <<>>}) >= 2
    /\ ~filling
    /\ \E k \in Keys, v \in Values :
           /\ keys[k] = <<>>
           /\ Put(M, k, v).exit = "stored"
           /\ Put(M, k, v).moves >= 1

\* ---- C2 ----------------------------------------------------------------
\* C2 (bounded distance): every occupied slot i holding key k satisfies
\* (i - hash(k) mod capacity) mod capacity < BucketSize.
C2_BoundedDistance ==
    \A i \in Occupied(M) : Distance(M, HomeOfSlot(M, i), i) < config.BucketSize

\* Call r relocated an entry and left some entry at the largest offset the
\* neighborhood allows.
MovedToEdge(r) ==
    /\ r.moves >= 1
    /\ \E i \in Occupied(r.m) :
           Distance(r.m, HomeOfSlot(r.m, i), i) = r.m.config.BucketSize - 1

\* Some Put relocates an entry by displacement, to the edge of its
\* neighborhood.
C2_Witness ==
    \E k \in Keys, v \in Values : MovedToEdge(Put(M, k, v))

\* ---- C3 ----------------------------------------------------------------
\* C3 as stated (bitmap exactness over every offset 0..31): bit b of
\* neighbors[h] is set if and only if slot (h + b) mod capacity holds an
\* entry whose home is h.
C3_BitmapExactAllOffsets ==
    \A h \in Slots(M) : \A b \in 0..(BitmapWidth - 1) :
        (b \in neighbors[h]) <=> (mod(h + b, config.Size) \in SlotsOfHome(M, h))

\* C3 as amended: the equivalence holds for the offsets b below the
\* capacity, no bit at an offset b >= capacity is ever set, and the number
\* of set bits of neighbors[h] is the number of entries whose home is h.
C3_BitmapExact ==
    \A h \in Slots(M) :
        /\ \A b \in 0..(BitmapWidth - 1) :
               (b \in neighbors[h]) <=>
                   (b < config.Size /\ mod(h + b, config.Size) \in SlotsOfHome(M, h))
        /\ Cardinality(neighbors[h]) = Cardinality(SlotsOfHome(M, h))

\* Some home has an entry at a non-zero offset while the slot at its
\* offset 0 holds an entry of another home (a state only deletions and
\* displacement moves lead to).
C3_Witness ==
    \E h \in Slots(M) :
        /\ neighbors[h] # {}
        /\ 0 \notin neighbors[h]
        /\ entries[h] # Nil

\* ---- C4 ----------------------------------------------------------------
\* What C4 says of one call r = m.Put(k, v).
PutCounts(m, k, r) ==
    /\ (Get(m, k) = Miss /\ r.ok) => Len(r.m) = Len(m) + 1
    /\ Cardinality(Occupied(r.m)) =
           Cardinality(Occupied(m)) + (IF r.exit = "stored" THEN 1 ELSE 0)
    /\ Len(r.m) = Cardinality(Occupied(r.m))

\* C4 (count accounting): Len() is the number of non-empty slots; a Put of
\* an absent key that returns true adds exactly one to Len(); a Put changes
\* the number of occupied slots by one if it stored a new entry and not at
\* all otherwise, whatever displacement moves it made.
C4_CountAccounting ==
    /\ Len(M) = Cardinality(Occupied(M))
    /\ \A k \in Keys, v \in Values : PutCounts(M, k, Put(M, k, v))

\* Call r returned false after displacement moves.
FailedAfterMoves(r) == ~r.ok /\ r.moves >= 1

\* Some Put of an absent key returns false after displacement moves, on a
\* table that holds entries and has an empty slot.
C4_Witness ==
    /\ n >= 2
    /\ n < config.Size
    /\ \E k \in Keys, v \in Values : FailedAfterMoves(Put(M, k, v))

\* ---- C5 ----------------------------------------------------------------
\* What C5 says of one call r = m.Put(k, v) on a present key k.
OverwriteOnly(m, k, v, r) ==
    /\ r.ok
    /\ Get(r.m, k) = Hit(v)
    /\ Len(r.m) = Len(m)
    /\ r.m.neighbors = m.neighbors
    /\ \A i \in Slots(m) :
           IF m.entries[i] # Nil /\ Equals(m.entries[i].key, k)
           THEN r.m.entries[i] = entry(k, v)
           ELSE r.m.entries[i] = m.entries[i]

\* C5 (overwrite): Put(k, v) on a present key returns true, makes Get(k)
\* return (v, true), leaves Len() unchanged and relocates nothing: every
\* slot keeps its key, every bitmap is unchanged, and only the value stored
\* with k changes.
C5_Overwrite ==
    \A k \in Keys, v \in Values :
        Get(M, k).ok => OverwriteOnly(M, k, v, Put(M, k, v))

\* A key stored away from its home slot, among other entries, is about to
\* be overwritten with a value other than the one it holds.
C5_Witness ==
    /\ n >= 3
    /\ \E i \in Occupied(M), v \in Values :
           /\ Distance(M, HomeOfSlot(M, i), i) >= 1
           /\ entries[i].value # v
           /\ Put(M, entries[i].key, v).exit = "overwrite"

\* ---- C6 ----------------------------------------------------------------
\* What C6 says of one call r = m.Delete(k) on a present key k.
DeletedOne(m, k, r) ==
    /\ r.ok
    /\ r.value = Get(m, k).value
    /\ Get(r.m, k) = Miss
    /\ Len(r.m) = Len(m) - 1

\* C6 (deleting a present key): if Get(k) = (v, true) then Delete(k)
\* returns (v, true), afterwards Get(k) returns (zero value, false), and
\* Len() has decreased by exactly one.
C6_DeletePresent ==
    \A k \in Keys : Get(M, k).ok => DeletedOne(M, k, Delete(M, k))

\* A key stored with a non-zero value away from its home slot, behind
\* another entry of the same home, is about to be deleted.
C6_Witness ==
    \E i \in Occupied(M) :
        /\ Distance(M, HomeOfSlot(M, i), i) >= 1
        /\ 0 \in neighbors[HomeOfSlot(M, i)]
        /\ entries[i].value # zeroValue
        /\ Delete(M, entries[i].key).ok

\* ---- C7 ----------------------------------------------------------------
\* What C7 says of one call r = m.Delete(k) on an absent key k.
DeletedNothing(m, r) ==
    /\ ~r.ok
    /\ r.value = zeroValue
    /\ r.m = m

\* C7 (deleting an absent key): Delete(k) returns (zero value, false) and
\* leaves slots, bitmaps and Len() unchanged.
C7_DeleteAbsent ==
    \A k \in Keys : Get(M, k) = Miss => DeletedNothing(M, Delete(M, k))

\* An absent key whose home bitmap is not empty (the scan compares a
\* candidate before it misses) is about to be deleted.
C7_Witness ==
    /\ n >= 2
    /\ \E k \in Keys :
           /\ neighbors[hashKey(M, k)] # {}
           /\ ~Delete(M, k).ok

\* ---- C8 ----------------------------------------------------------------
\* What C8 says of one call r = m.Put(k, v) that returned false.
ContentsKept(m, k, r) ==
    /\ Len(r.m) = Len(m)
    /\ Get(r.m, k) = Miss
    /\ \A k2 \in Keys \ {k} :
           /\ Get(r.m, k2) = Get(m, k2)
           /\ Get(r.m, k2).exit # "panic"

\* C8 (a failed Put preserves the contents): whenever Put(k, v) returns
\* false, Len() is unchanged, k is still absent, and Get gives for every
\* other key what it gave before the call, without failing.
C8_FailedPutPreserves ==
    \A k \in Keys, v \in Values :
        ~Put(M, k, v).ok => ContentsKept(M, k, Put(M, k, v))

\* Call r failed by deadlock after relocating an entry.
DeadlockAfterMoves(r) == r.exit = "deadlock" /\ r.moves >= 1

\* Some Put fails by deadlock after it has relocated an entry.
C8_Witness ==
    \E k \in Keys, v \in Values : DeadlockAfterMoves(Put(M, k, v))

\* ---- C9 ----------------------------------------------------------------
\* The empty slot of m nearest to h going forward (with wraparound), or -1.
NearestEmpty(m, h, free) ==
    IF free = {} THEN -1
    ELSE CHOOSE s \in free : \A t \in free : Distance(m, h, s) <= Distance(m, h, t)

\* What C9 says of the search e = m.findEmptySlot(h) from home h.
SearchExact(m, h, e) ==
    /\ (e < 0) <=> (Len(m) = Size(m))
    /\ e = NearestEmpty(m, h, Slots(m) \ Occupied(m))

\* C9 (capacity exhaustion): the forward search from the home of an absent
\* key fails if and only if Len() = capacity, in that case Put returns
\* false, and otherwise the search returns the empty slot nearest to home.
C9_CapacityExhaustion ==
    \A k \in Keys :
        Get(M, k) = Miss =>
            /\ SearchExact(M, hashKey(M, k), findEmptySlot(M, hashKey(M, k)))
            /\ Len(M) = Size(M) => \A v \in Values : ~Put(M, k, v).ok

\* The table is full and a Put of an absent key fails for lack of a slot.
C9_Witness ==
    /\ Occupied(M) = Slots(M)
    /\ \E k \in Keys, v \in Values : Put(M, k, v).exit = "noslot"

\* ---- C10 ---------------------------------------------------------------
\* C10 as stated (saturation): when distinct keys are inserted until Put
\* first returns false, Len() < capacity at that moment.
C10_FailsBeforeFull ==
    filling =>
        \A k \in Keys, v \in Values :
            (Get(M, k) = Miss /\ ~Put(M, k, v).ok) => Len(M) < Size(M)

\* What the amended C10 says of a first failing call r = m.Put(k, v).
FirstFailure(m, r) ==
    \/ r.exit = "deadlock" /\ Len(r.m) < Size(m)
    \/ r.exit = "noslot" /\ Len(r.m) = Size(m)

\* C10 as amended: at the first failure Len() < capacity when the failure
\* is a displacement deadlock, and Len() = capacity when it is the lack of
\* an empty slot; there is no third case.
C10_FirstFailure ==
    filling =>
        \A k \in Keys, v \in Values :
            (Get(M, k) = Miss /\ ~Put(M, k, v).ok) => FirstFailure(M, Put(M, k, v))

\* Distinct keys were inserted, all successfully, and the next one fails by
\* deadlock while the table has an empty slot.
C10_Witness ==
    /\ filling
    /\ Len(M) < Size(M)
    /\ \E k \in Keys, v \in Values :
           Get(M, k) = Miss /\ Put(M, k, v).exit = "deadlock"

\* ---- C11 ---------------------------------------------------------------
\* Map m has the capacity given at construction: Size() and both arrays.
FixedCapacity(m) ==
    /\ Size(m) = Capacity
    /\ DOMAIN m.entries = 0..(Capacity - 1)
    /\ DOMAIN m.neighbors = 0..(Capacity - 1)

\* What C11 says of one call r = m.Put(k, v): the capacity is kept, and
\* where a new key finds no place the call returns false.
NoGrowth(m, k, r) ==
    /\ FixedCapacity(r.m)
    /\ (Get(m, k) = Miss /\ Len(m) = Size(m)) => ~r.ok
    /\ r.ok => Cardinality(Occupied(r.m)) <= Capacity

\* C11 (no resize): across any sequence of Put, Delete and Get calls Size()
\* and the lengths of the slot array and the bitmap array stay equal to the
\* capacity given at construction, also when Config.AutoResize is true; a
\* Put that would need growth returns false.
C11_NoResize ==
    /\ FixedCapacity(M)
    /\ \A k \in Keys, v \in Values : NoGrowth(M, k, Put(M, k, v))
    /\ \A k \in Keys : FixedCapacity(Delete(M, k).m)

\* A table constructed with AutoResize set is full, and a new key is put.
C11_Witness ==
    /\ config.AutoResize
    /\ Len(M) = Size(M)
    /\ \E k \in Keys, v \in Values : Get(M, k) = Miss /\ ~Put(M, k, v).ok

\* ---- C12 ---------------------------------------------------------------
\* C12 (precondition enforcement): construction with BucketSize > 32 is
\* rejected or clamped to 32, so that no table ever operates with a
\* BucketSize above the width of a bitmap.
C12_BucketSizeEnforced ==
    config.BucketSize <= BitmapWidth

\* ---- C13 ---------------------------------------------------------------
\* The call r = m.Put(k, v) stored entry (k, v) at slot e, set bit d of the
\* bitmap of home h, and changed no other slot and no other bit.
PlacedAt(m, h, e, d, k, v, r) ==
    /\ r.ok
    /\ m.entries[e] = Nil
    /\ d \notin m.neighbors[h]
    /\ r.m.entries = [m.entries EXCEPT ![e] = entry(k, v)]
    /\ r.m.neighbors = [m.neighbors EXCEPT ![h] = @ \cup {d}]

\* Key k is absent from m and the nearest empty slot at or after its home
\* lies within the neighbourhood of that home.
DirectCase(m, k) ==
    /\ Get(m, k) = Miss
    /\ findEmptySlot(m, hashKey(m, k)) >= 0
    /\ Distance(m, hashKey(m, k), findEmptySlot(m, hashKey(m, k))) < m.config.BucketSize

\* C13 (direct placement): a Put of an absent key whose nearest empty slot
\* at or after its home lies at offset d < BucketSize returns true, stores
\* the entry at exactly that slot, sets bit d of neighbors[home], and changes
\* no other slot and no other bit of any bitmap.
C13_DirectPlacement ==
    \A k \in Keys, v \in Values :
        DirectCase(M, k) =>
            PlacedAt(M, hashKey(M, k), findEmptySlot(M, hashKey(M, k)),
                     Distance(M, hashKey(M, k), findEmptySlot(M, hashKey(M, k))),
                     k, v, Put(M, k, v))

\* An absent key whose home is taken and whose nearest empty slot is the
\* next one: the entry goes to offset 1.
C13_Witness ==
    \E k \in Keys :
        /\ DirectCase(M, k)
        /\ Distance(M, hashKey(M, k), findEmptySlot(M, hashKey(M, k))) = 1
        /\ Put(M, k, zeroValue + 1).ok

\* ---- C14 ---------------------------------------------------------------
\* The iterations of the loop of m.shiftEmptySlotTo(i, j): for each, the map
\* m and the empty slot j it starts from and the result r of m.reshift(j).
RECURSIVE ShiftSteps(_, _, _)
ShiftSteps(m, i, j) ==
    IF Distance(m, i, j) >= m.config.BucketSize
    THEN LET r == reshift(m, j)
         IN  {[m |-> m, j |-> j, r |-> r]} \cup
             (IF r.k < 0 THEN {} ELSE ShiftSteps(r.m, i, r.k))
    ELSE {}

\* The iterations of the displacement that m.Put(k, _) runs for a new key k.
PutSteps(m, k) ==
    IF Get(m, k) = Miss /\ findEmptySlot(m, hashKey(m, k)) >= 0
    THEN ShiftSteps(m, hashKey(m, k), findEmptySlot(m, hashKey(m, k)))
    ELSE {}

\* Some entry of m may move into the empty slot j: it is stored at a slot s,
\* has a home h at most BucketSize - 1 before j, and lies before j from h.
Eligible(m, j) ==
    \E s \in Occupied(m) :
        /\ 1 <= Distance(m, HomeOfSlot(m, s), j)
        /\ Distance(m, HomeOfSlot(m, s), j) < m.config.BucketSize
        /\ Distance(m, HomeOfSlot(m, s), s) < Distance(m, HomeOfSlot(m, s), j)

\* What C14 says of the iterations steps of the call r = m.Put(k, v).
SearchFailsExactly(steps, r) ==
    /\ \A st \in steps : (st.r.k < 0) <=> ~Eligible(st.m, st.j)
    /\ (\E st \in steps : st.r.k < 0) <=> (r.exit = "deadlock")
    /\ r.exit = "deadlock" => ~r.ok

MovedOne(st, i) ==
    /\ st.m.entries[st.j] = Nil
    /\ st.m.entries[st.r.k] # Nil
    /\ st.r.m.entries = [st.m.entries EXCEPT ![st.j] = st.m.entries[st.r.k],
                                              ![st.r.k] = Nil]
    /\ 1 <= Distance(st.m, i, st.r.k)
    /\ Distance(st.m, i, st.r.k) < Distance(st.m, i, st.j)

\* What C15 says of the iterations steps of the call r = m.Put(k, v) that
\* started with the empty slot at distance d0 from home i.
Progress(steps, i, d0, r) ==
    /\ \A st \in steps : st.r.k >= 0 => MovedOne(st, i)
    /\ r.moves = Cardinality({st \in steps : st.r.k >= 0})
    /\ Cardinality(steps) <= d0
    /\ r.exit \in {"stored", "deadlock"}

\* C15 (displacement progress and termination): every successful step moves
\* exactly one entry into the empty slot j and makes its old slot the new
\* empty slot, whose forward distance from the target home is strictly
\* smaller than j's and at least 1; the loop ends within a number of steps
\* bounded by the initial distance.
C15_Progress ==
    \A k \in Keys :
        PutSteps(M, k) # {} =>
            Progress(PutSteps(M, k), hashKey(M, k),
                     Distance(M, hashKey(M, k), findEmptySlot(M, hashKey(M, k))),
                     Put(M, k, zeroValue + 1))

\* A Put that stores its key after two displacement steps.
C15_Witness ==
    \E k \in Keys :
        /\ Cardinality({st \in PutSteps(M, k) : st.r.k >= 0}) >= 2
        /\ Put(M, k, zeroValue + 1).ok

\* ---- C16 ---------------------------------------------------------------
\* The offsets of the set bits of neighbors[h] at which slot (h + b) mod
\* capacity of m holds key k.
MatchOffsets(m, h, k) ==
    {b \in m.neighbors[h] :
        /\ m.entries[mod(h + b, m.config.Size)] # Nil
        /\ Equals(m.entries[mod(h + b, m.config.Size)].key, k)}

\* The set bits of neighbors[h] up to and including the first at which key
\* k is found, all of them when it is found at none.
BitsUntilMatch(m, h, k) ==
    {b \in m.neighbors[h] : \A c \in MatchOffsets(m, h, k) : b <= c}

\* What C16 says of the work sc of m.findEntry(h, k).
OnePerBit(m, h, k, sc) ==
    /\ sc.count = Cardinality(BitsUntilMatch(m, h, k))
    /\ sc.slots = {mod(h + b, m.config.Size) : b \in BitsUntilMatch(m, h, k)}
    /\ sc.count <= m.config.BucketSize
    /\ sc.count <= BitmapWidth
    /\ findEntry(m, h, k) >= 0 => findEntry(m, h, k) \in sc.slots

\* C16 (bounded lookup): the scan for a key with home h performs exactly one
\* key comparison per set bit of neighbors[h] until a match, hence at most
\* BucketSize (<= 32) comparisons, however many entries the table holds.
C16_BoundedLookup ==
    \A k \in Keys :
        OnePerBit(M, hashKey(M, k), k, findEntryScan(M, hashKey(M, k), k))

\* A full table in which a key is found at the first of two set bits of its
\* home's bitmap: one comparison, not two.
C16_Witness ==
    /\ Len(M) = Size(M)
    /\ \E k \in Keys :
        /\ Cardinality(neighbors[hashKey(M, k)]) = 2
        /\ findEntryScan(M, hashKey(M, k), k).count = 1
        /\ Get(M, k).ok

\* ---- C17 ---------------------------------------------------------------
\* Every slot that the scan with work sc reads in m is occupied.
ReadsOccupied(m, sc) == \A i \in sc.slots : m.entries[i] # Nil

\* None of the three operations on key k dereferences a nil entry of m.
NoNilDereference(m, k, g, p, d) ==
    /\ g.exit # "panic"
    /\ p.exit # "panic"
    /\ d.exit # "panic"

\* C17 (lookup never touches an empty slot): in every reachable state every
\* slot that the bitmap scan reads for any key is occupied, so Get, Put and
\* Delete never dereference a nil entry, also after deletions and after
\* displacement moves.
C17_NoEmptySlotRead ==
    \A k \in Keys :
        /\ ReadsOccupied(M, findEntryScan(M, hashKey(M, k), k))
        /\ NoNilDereference(M, k, Get(M, k), Put(M, k, zeroValue + 1), Delete(M, k))

\* A key's home slot has been emptied by a deletion or a displacement move
\* while an entry of that home remains at offset 1: the scan for the key
\* skips the empty home slot and reads the occupied one.
C17_Witness ==
    \E k \in Keys :
        /\ entries[hashKey(M, k)] = Nil
        /\ neighbors[hashKey(M, k)] = {1}
        /\ findEntryScan(M, hashKey(M, k), k).slots = {mod(hashKey(M, k) + 1, Capacity)}

\* ---- C18 ---------------------------------------------------------------
\* The bitmap of every empty slot of m has its offset-0 bit clear and is not
\* all ones.
EmptySlotsUnsaturated(m) ==
    \A i \in Slots(m) \ Occupied(m) :
        0 \notin m.neighbors[i] /\ m.neighbors[i] # allBitSet

\* The call r = m.Put(k, v) did not return at the saturated-bitmap check,
\* and returned false only on a full table or a displacement deadlock.
FalseOnlyFullOrDeadlock(m, r) ==
    /\ r.exit # "saturated"
    /\ ~r.ok => r.exit \in {"noslot", "deadlock"}
    /\ r.exit = "noslot" => Occupied(m) = Slots(m)
    /\ r.exit = "deadlock" => Occupied(m) # Slots(m)

\* C18 (the saturated-bitmap guard is unreachable): in every reachable state
\* the bitmap of any empty slot has its offset-0 bit clear and so is never
\* all ones; Put never returns false at the check neighbors[emptySlot] ==
\* 0xFFFFFFFF, and every false return of Put comes from a full table or a
\* displacement deadlock.
C18_GuardUnreachable ==
    /\ EmptySlotsUnsaturated(M)
    /\ \A k \in Keys, v \in Values : FalseOnlyFullOrDeadlock(M, Put(M, k, v))

\* A Put passes the check on an empty slot whose bitmap has a bit set, and
\* then returns false.
C18_Witness ==
    \E k \in Keys :
        /\ Get(M, k) = Miss
        /\ findEmptySlot(M, hashKey(M, k)) >= 0
        /\ neighbors[findEmptySlot(M, hashKey(M, k))] # {}
        /\ ~Put(M, k, zeroValue + 1).ok

\* ---- C19 ---------------------------------------------------------------
\* No two occupied slots of m hold equal keys.
UniqueKeys(m) ==
    \A i, j \in Occupied(m) :
        Equals(m.entries[i].key, m.entries[j].key) => i = j

\* C19 (key uniqueness): in every reachable state no two occupied slots hold
\* equal keys, so each live key is stored in exactly one slot.
C19_KeyUniqueness ==
    /\ UniqueKeys(M)
    /\ \A k \in Keys : Get(M, k).ok =>
           Cardinality({i \in Occupied(M) : Equals(entries[i].key, k)}) = 1

\* A key stored behind another key of the same home is put again.
C19_Witness ==
    \E k \in Keys :
        /\ Get(M, k).ok
        /\ findEntryScan(M, hashKey(M, k), k).count = 2
        /\ Put(M, k, zeroValue + 1).exit = "overwrite"

\* ---- C20 ---------------------------------------------------------------
\* The call r = m.Delete(k) emptied slot e, cleared bit d of the bitmap of
\* home h, and changed no other slot and no other bit.
DeletedLocally(m, h, e, d, r) ==
    /\ r.ok
    /\ d \in m.neighbors[h]
    /\ r.m.entries = [m.entries EXCEPT ![e] = Nil]
    /\ r.m.neighbors = [m.neighbors EXCEPT ![h] = @ \ {d}]

\* C20 (Delete is local): a successful Delete(k) empties only the slot that
\* held k and clears only the bit for that slot's offset in neighbors[hash(k)
\* mod capacity]; every other slot keeps its key and value, every other
\* bitmap bit is unchanged, and no entry is relocated.
C20_DeleteLocal ==
    \A k \in Keys : \A e \in Occupied(M) :
        Equals(entries[e].key, k) =>
            DeletedLocally(M, hashKey(M, k), e, Distance(M, hashKey(M, k), e),
                           Delete(M, k))

\* The first of two stored keys of one home is deleted from a full table.
C20_Witness ==
    \E k \in Keys :
        /\ Len(M) = Size(M)
        /\ Cardinality(neighbors[hashKey(M, k)]) = 2
        /\ findEntryScan(M, hashKey(M, k), k).count = 1
        /\ Delete(M, k).ok

====
